---- MODULE Spec2Model ----
(***************************************************************************)
(* Basic Object Notation (BasicObjectNotation.py): the character queue,    *)
(* the classifier, the recursive-descent parser run as an explicit call    *)
(* stack, and the key operations of the parsed Object.                     *)
(*                                                                         *)
(* A character is a one-character string.  A Python value is a tagged      *)
(* record: none, str, int, float, list, node, object.                      *)
(***************************************************************************)
EXTENDS Integers, Sequences, FiniteSets, TLC

VARIABLES input, text, stack, ret, status, err, last, lastop, first

vars == <<input, text, stack, ret, status, err, last, lastop, first>>

\* ------------------------------------------------------------------------
\* Characters
\* ------------------------------------------------------------------------
BS == "\\"
DQ == "\""
SQ == "'"
SP == " "
TAB == "\t"
NL == "\n"

\* str.isdigit / str.isalpha on the characters the inputs are drawn from
isdigit(c) == c \in {"0", "1", "2", "3", "4", "5", "6", "7", "8", "9"}
isalpha(c) == c \in {"a", "b", "c", "d", "e", "f", "g", "h", "i", "j", "k",
                     "l", "m", "n", "o", "p", "q", "r", "s", "t", "u", "v",
                     "w", "x", "y", "z"}

integer_digits == {"0", "1", "2", "3", "4", "5", "6", "7", "8", "9"}
float_digits == integer_digits \cup {".", "f", "e", "-"}
invalid_chars == {TAB, NL}

\* ------------------------------------------------------------------------
\* Python values
\* ------------------------------------------------------------------------
None == [t |-> "none"]
StrVal(s) == [t |-> "str", s |-> s]
IntVal(i) == [t |-> "int", i |-> i]
FloatVal(neg, m, e) == [t |-> "float", neg |-> neg, m |-> m, e |-> e]
InfVal(neg) == [t |-> "float", infneg |-> neg]
ListVal(xs) == [t |-> "list", items |-> xs]
BONNode(k, v) == [t |-> "node", key |-> k, value |-> v]
BONObject(ns) == [t |-> "object", nodes |-> ns]

\* BONType, and opening_map as a partial map on characters
opening_map(c) ==
  CASE c = "{" -> "bon_object"
    [] c = "[" -> "bon_list"
    [] c = DQ -> "string"
    [] c = SQ -> "string"
    [] c = ":" -> "bon_node"
    [] OTHER -> "absent"

\* ------------------------------------------------------------------------
\* TextQueue: a deque; push is appendleft, pop takes from the right end, so
\* the stored sequence is the text reversed.
\* ------------------------------------------------------------------------
push(q, c) == <<c>> \o q

pop_char(q) == q[Len(q)]

pop_rest(q) == SubSeq(q, 1, Len(q) - 1)

is_empty(q) == Len(q) = 0

peek(q, index) == IF Len(q) > index THEN q[Len(q) - index] ELSE "absent"

RECURSIVE PushAll(_, _)
PushAll(q, data) ==
  IF data = <<>> THEN q ELSE PushAll(push(q, Head(data)), Tail(data))

TextQueue(data) == PushAll(<<>>, data)

\* __iter__: yields peek(0), peek(1), ...; "after" is the queue it leaves.
TQIterConsuming(q) ==
  [yielded |-> [x \in 1..Len(q) |-> peek(q, x - 1)], after |-> <<>>]

TQIter(q) ==
  [yielded |-> [x \in 1..Len(q) |-> peek(q, x - 1)], after |-> q]

\* __str__: "".join(x for x in self)
TQStr(q) == TQIter(q).yielded

\* str.replace(c, '') for the two sanitized characters
RECURSIVE Remove(_, _)
Remove(s, cs) ==
  IF s = <<>> THEN <<>>
  ELSE IF Head(s) \in cs THEN Remove(Tail(s), cs)
       ELSE <<Head(s)>> \o Remove(Tail(s), cs)

sanitize(data) == Remove(Remove(data, {NL}), {TAB})

\* ------------------------------------------------------------------------
\* determine_type
\* ------------------------------------------------------------------------
RECURSIVE Scan(_, _, _, _)
Scan(cs, x, is_escaped, alpha_found) ==
  IF x > Len(cs) THEN "invalid"
  ELSE LET char == cs[x]
           esc == (char = BS /\ ~is_escaped)
       IN IF ~is_escaped /\ opening_map(char) # "absent"
            THEN opening_map(char)
          ELSE IF ~is_escaped /\ isalpha(char) /\ ~alpha_found
            THEN Scan(cs, x + 1, esc, TRUE)
          ELSE IF ~is_escaped /\ isdigit(char) /\ ~alpha_found
            THEN "number"
          ELSE Scan(cs, x + 1, esc, alpha_found)

determine_type(q) ==
  LET it == TQIter(q)
  IN [kind |-> Scan(it.yielded, 1, FALSE, FALSE), text |-> it.after]

\* ------------------------------------------------------------------------
\* Python's conversions, on sequences of characters
\* ------------------------------------------------------------------------
Raise(e) == [t |-> "raise", e |-> e]

whitespace == {SP, TAB, NL}

RECURSIVE lstrip(_, _)
lstrip(s, cs) ==
  IF s # <<>> /\ Head(s) \in cs THEN lstrip(Tail(s), cs) ELSE s

RECURSIVE rstrip(_, _)
rstrip(s, cs) ==
  IF s # <<>> /\ s[Len(s)] \in cs THEN rstrip(SubSeq(s, 1, Len(s) - 1), cs)
  ELSE s

\* str.strip(chars)
strip(s, cs) == rstrip(lstrip(s, cs), cs)

DigitVal(c) ==
  CASE c = "0" -> 0 [] c = "1" -> 1 [] c = "2" -> 2 [] c = "3" -> 3
    [] c = "4" -> 4 [] c = "5" -> 5 [] c = "6" -> 6 [] c = "7" -> 7
    [] c = "8" -> 8 [] c = "9" -> 9

RECURSIVE DigitsVal(_, _)
DigitsVal(s, acc) ==
  IF s = <<>> THEN acc ELSE DigitsVal(Tail(s), 10 * acc + DigitVal(Head(s)))

\* the longest front run of digits of s
RECURSIVE DigitRun(_)
DigitRun(s) ==
  IF s # <<>> /\ isdigit(Head(s)) THEN <<Head(s)>> \o DigitRun(Tail(s))
  ELSE <<>>

\* the element of a one-element set; {e(x) : x \in {v}} computes v once
Only(S) == CHOOSE x \in S : TRUE

\* int(str): surrounding whitespace is stripped, then the digits are read in
\* base 10; anything else raises ValueError.
int(s) ==
  Only({IF t # <<>> /\ DigitRun(t) = t THEN IntVal(DigitsVal(t, 0))
        ELSE Raise("ValueError") : t \in {strip(s, whitespace)}})

RECURSIVE NumDigits(_)
NumDigits(n) == IF n < 10 THEN 1 ELSE 1 + NumDigits(n \div 10)

\* m * 10^e with no trailing zero in m
RECURSIVE Normal(_, _, _)
Normal(neg, m, e) ==
  IF m = 0 THEN FloatVal(FALSE, 0, 0)
  ELSE IF m % 10 = 0 THEN Normal(neg, m \div 10, e + 1)
  ELSE FloatVal(neg, m, e)

RECURSIVE Lead2(_)
Lead2(n) == IF n < 100 THEN n ELSE Lead2(n \div 10)

\* the range of a double: above about 1.8e308 the result is inf, below
\* about 2.5e-324 it is zero
Ranged(g) ==
  Only({IF f.m = 0 THEN f
        ELSE IF f.e + NumDigits(f.m) - 1 > 308
                  \/ (f.e + NumDigits(f.m) - 1 = 308
                        /\ (IF f.m < 10 THEN 10 * f.m ELSE Lead2(f.m)) >= 18)
          THEN InfVal(f.neg)
        ELSE IF f.e + NumDigits(f.m) - 1 < 0 - 324
          THEN FloatVal(FALSE, 0, 0)
        ELSE f : f \in {g}})

\* float(str): [-] digits [. digits] [e [-] digits] between whitespace, with
\* at least one digit in the mantissa; anything else raises ValueError.
\* FloatScan reads t from position i on; ph is the part it is in, a what it
\* has read: the sign, the mantissa digits as an integer, how many of them,
\* how many after the point, the exponent's sign, value and digit count.
RECURSIVE FloatScan(_, _, _, _)
FloatScan(t, i, ph, a) ==
  IF i > Len(t)
    THEN IF a.nd > 0 /\ (ph \in {"int", "frac"} \/ (ph = "exp" /\ a.ed > 0))
           THEN Ranged(Normal(a.neg, a.m,
                              (IF a.eneg THEN 0 - a.ex ELSE a.ex) - a.fd))
         ELSE Raise("ValueError")
  ELSE IF ph = "sign"
    THEN IF t[i] = "-"
           THEN FloatScan(t, i + 1, "int", [a EXCEPT !.neg = TRUE])
         ELSE FloatScan(t, i, "int", a)
  ELSE IF ph \in {"int", "frac"} /\ isdigit(t[i])
    THEN FloatScan(t, i + 1, ph,
                   [a EXCEPT !.m = 10 * @ + DigitVal(t[i]), !.nd = @ + 1,
                             !.fd = IF ph = "frac" THEN @ + 1 ELSE @])
  ELSE IF ph = "int" /\ t[i] = "."
    THEN FloatScan(t, i + 1, "frac", a)
  ELSE IF ph \in {"int", "frac"} /\ t[i] = "e" /\ a.nd > 0
    THEN FloatScan(t, i + 1, "expsign", a)
  ELSE IF ph = "expsign"
    THEN IF t[i] = "-"
           THEN FloatScan(t, i + 1, "exp", [a EXCEPT !.eneg = TRUE])
         ELSE FloatScan(t, i, "exp", a)
  ELSE IF ph = "exp" /\ isdigit(t[i])
    THEN FloatScan(t, i + 1, "exp",
                   [a EXCEPT !.ex = 10 * @ + DigitVal(t[i]), !.ed = @ + 1])
  ELSE Raise("ValueError")

float(s) ==
  Only({FloatScan(t, 1, "sign",
                  [neg |-> FALSE, m |-> 0, nd |-> 0, fd |-> 0,
                   eneg |-> FALSE, ex |-> 0, ed |-> 0]) :
          t \in {strip(s, whitespace)}})

Count(s, c) == Cardinality({i \in 1..Len(s) : s[i] = c})

\* str.rindex(c), 0-based; only used when c occurs
rindex(s, c) == (CHOOSE i \in 1..Len(s) :
                   s[i] = c /\ \A j \in (i + 1)..Len(s) : s[j] # c) - 1

parse_float(data) ==
  IF Count(data, "f") > 1 THEN Raise("FloatTokenTooMany")
  ELSE IF Count(data, "f") > 0 /\ rindex(data, "f") # Len(data) - 1
    THEN Raise("FloatTokenMisplaced")
  ELSE float(strip(data, {"f"}))

\* the tail of parse_number, once the buffer is filled
number_of(buffer) ==
  Only({IF \A i \in 1..Len(s) : s[i] \in integer_digits \/ s[i] = SP
          THEN int(s)
        ELSE parse_float(s) : s \in {TQStr(buffer)}})

\* ------------------------------------------------------------------------
\* The call stack.  One frame per active routine; the last frame is the
\* running one.  entry, consumed and lastLen record the run: the queue length
\* when the routine was entered, the characters the routine itself popped,
\* and the queue length at the start of its latest loop iteration.
\* ------------------------------------------------------------------------
Frame(fn, n) ==
  [fn |-> fn, pc |-> "run", type |-> "none", buffer |-> <<>>,
   start_found |-> FALSE, is_escaped |-> FALSE, key |-> None,
   value |-> None, items |-> <<>>, result |-> None,
   entry |-> n, consumed |-> <<>>, lastLen |-> n + 1]

NoFrame == [fn |-> "none"]

NoOp == [op |-> "none"]

top == stack[Len(stack)]

Running(fn, pc) ==
  status = "running" /\ stack # <<>> /\ top.fn = fn /\ top.pc = pc

\* the running frame after an iteration that leaves the queue as q: the
\* characters taken off the front are the ones it consumed
Advance(f, q) ==
  [f EXCEPT !.consumed = @ \o SubSeq(TQStr(text), 1, Len(text) - Len(q)),
            !.lastLen = Len(text)]

\* the running routine goes on with frame f
Stay(f) ==
  /\ stack' = [stack EXCEPT ![Len(stack)] = f]
  /\ ret' = None
  /\ last' = NoFrame
  /\ UNCHANGED <<status, err>>

\* the running routine, left as frame f, calls self.parse_value()
CallValue(f) ==
  /\ stack' = [stack EXCEPT ![Len(stack)] = [f EXCEPT !.pc = "wait"]]
                 \o <<Frame("parse_value", Len(text'))>>
  /\ ret' = None
  /\ last' = NoFrame
  /\ UNCHANGED <<status, err>>

\* the running routine returns v
Return(f, v) ==
  /\ stack' = SubSeq(stack, 1, Len(stack) - 1)
  /\ ret' = v
  /\ last' = [f EXCEPT !.result = v]
  /\ status' = IF Len(stack) = 1 THEN "done" ELSE "running"
  /\ UNCHANGED err

\* the running routine raises; nothing catches, so every frame is unwound
Throw(f, e) ==
  /\ stack' = <<>>
  /\ ret' = None
  /\ last' = f
  /\ status' = "error"
  /\ err' = e

type_map(kind) ==
  CASE kind = "number" -> "parse_number"
    [] kind = "string" -> "parse_string"
    [] kind = "bon_node" -> "parse_node"
    [] kind = "bon_list" -> "parse_list"
    [] kind = "bon_object" -> "parse_object"

\* parse_value: classify, then call the routine of the kind
Call ==
  /\ Running("parse_value", "run")
  /\ LET d == determine_type(text)
         f == [top EXCEPT !.type = d.kind]
     IN /\ text' = d.text
        /\ IF d.kind = "invalid" THEN Throw(f, "KeyError")
           ELSE /\ stack' = [stack EXCEPT ![Len(stack)] =
                                [f EXCEPT !.pc = "wait"]]
                              \o <<Frame(type_map(d.kind), Len(d.text))>>
                /\ ret' = None
                /\ last' = NoFrame
                /\ UNCHANGED <<status, err>>
  /\ UNCHANGED <<input, lastop, first>>

\* parse_value: return what the routine returned
ValueReturn ==
  /\ Running("parse_value", "wait")
  /\ Return(top, ret)
  /\ UNCHANGED <<input, text, lastop, first>>

\* parse_number
NumberCond ==
  ~is_empty(text) /\ (peek(text, 0) \in float_digits \/ peek(text, 0) = SP)

NumberLoop ==
  /\ Running("parse_number", "run")
  /\ NumberCond
  /\ text' = pop_rest(text)
  /\ Stay([Advance(top, pop_rest(text)) EXCEPT
            !.buffer = push(@, pop_char(text))])
  /\ UNCHANGED <<input, lastop, first>>

NumberExit ==
  /\ Running("parse_number", "run")
  /\ ~NumberCond
  /\ \E v \in {number_of(top.buffer)} :
       IF v.t = "raise" THEN Throw(top, v.e) ELSE Return(top, v)
  /\ UNCHANGED <<input, text, lastop, first>>

\* parse_string
string_ends_any(start_found, is_escaped, char) ==
  start_found /\ (char = DQ \/ char = SQ)

string_ends(start_found, is_escaped, char) ==
  start_found /\ ~is_escaped /\ (char = DQ \/ char = SQ)

string_push(buffer, char, is_escaped) ==
  IF ~(char = BS) \/ is_escaped THEN push(buffer, char) ELSE buffer

StringLoop ==
  /\ Running("parse_string", "run")
  /\ ~is_empty(text)
  /\ text' = pop_rest(text)
  /\ LET char == pop_char(text)
         f == Advance(top, pop_rest(text))
         esc == (char = BS /\ ~f.is_escaped)
     IN IF string_ends(f.start_found, f.is_escaped, char)
          THEN Return(f, StrVal(TQStr(f.buffer)))
        ELSE IF f.start_found /\ char \notin invalid_chars
          THEN Stay([f EXCEPT
                 !.buffer = string_push(@, char, f.is_escaped),
                 !.is_escaped = esc])
        ELSE IF char = DQ \/ char = SQ
          THEN Stay([f EXCEPT !.start_found = TRUE, !.is_escaped = esc])
        ELSE Stay([f EXCEPT !.is_escaped = esc])
  /\ UNCHANGED <<input, lastop, first>>

StringExit ==
  /\ Running("parse_string", "run")
  /\ is_empty(text)
  /\ Throw(top, "UnterminatedString")
  /\ UNCHANGED <<input, text, lastop, first>>

\* parse_list
list_trigger(char) == char = "," \/ char = "["

ListLoop ==
  /\ Running("parse_list", "run")
  /\ ~is_empty(text)
  /\ text' = pop_rest(text)
  /\ LET char == pop_char(text)
         f == [Advance(top, pop_rest(text)) EXCEPT
                 !.start_found = @ \/ char = "["]
     IN IF f.start_found
          THEN IF list_trigger(char) THEN CallValue(f)
               ELSE IF char = "]" THEN Return(f, ListVal(f.items))
               ELSE IF ~(char = SP) THEN Throw(f, "MalformedList")
               ELSE Stay(f)
        ELSE Stay(f)
  /\ UNCHANGED <<input, lastop, first>>

list_append_front(new_list, v) == <<v>> \o new_list

\* new_list.append(v)
list_append(new_list, v) == Append(new_list, v)

ListResume ==
  /\ Running("parse_list", "wait")
  /\ Stay([top EXCEPT !.pc = "run", !.items = list_append(@, ret)])
  /\ UNCHANGED <<input, text, lastop, first>>

\* the loop ends on an empty queue and the routine falls off its end
ListExit ==
  /\ Running("parse_list", "run")
  /\ is_empty(text)
  /\ Return(top, None)
  /\ UNCHANGED <<input, text, lastop, first>>

\* parse_node
NodeLoop ==
  /\ Running("parse_node", "run")
  /\ ~is_empty(text)
  /\ text' = pop_rest(text)
  /\ LET char == pop_char(text)
         f == Advance(top, pop_rest(text))
     IN IF char = ":"
          THEN CallValue([f EXCEPT !.key =
                 StrVal(lstrip(strip(TQStr(f.buffer), whitespace),
                               whitespace))])
        ELSE IF char = ";" THEN Return(f, BONNode(f.key, f.value))
        ELSE IF ~(char = SP) /\ f.key.t = "none"
          THEN Stay([f EXCEPT !.buffer = push(@, char)])
        ELSE Stay(f)
  /\ UNCHANGED <<input, lastop, first>>

NodeResume ==
  /\ Running("parse_node", "wait")
  /\ Stay([top EXCEPT !.pc = "run", !.value = ret])
  /\ UNCHANGED <<input, text, lastop, first>>

NodeExit ==
  /\ Running("parse_node", "run")
  /\ is_empty(text)
  /\ Throw(top, "MissingNodeTerminator")
  /\ UNCHANGED <<input, text, lastop, first>>

\* parse_object
object_skip_stay(q) == q

object_skip(q) == pop_rest(q)

object_exit_error_same(start_found) == "MissingOpeningBrace"

object_exit_error(start_found) ==
  IF ~start_found THEN "MissingOpeningBrace" ELSE "MissingClosingBrace"

\* the body of an object holds nodes only; the raise of a str is a TypeError
ExpectNode(f, d) ==
  IF ~(d.kind = "bon_node") THEN Throw(f, "TypeError") ELSE CallValue(f)

ObjectLoop ==
  /\ Running("parse_object", "run")
  /\ ~is_empty(text)
  /\ LET char == peek(text, 0)
     IN IF char = "{"
          THEN LET d == determine_type(pop_rest(text))
               IN /\ text' = d.text
                  /\ ExpectNode([Advance(top, d.text) EXCEPT
                                   !.start_found = TRUE], d)
        ELSE IF char = "}"
          THEN /\ text' = pop_rest(text)
               /\ Return(Advance(top, pop_rest(text)),
                         BONObject(top.items))
        ELSE IF top.start_found /\ ~(char = SP)
          THEN LET d == determine_type(text)
               IN /\ text' = d.text
                  /\ ExpectNode(Advance(top, d.text), d)
        ELSE /\ text' = object_skip(text)
             /\ Stay(Advance(top, object_skip(text)))
  /\ UNCHANGED <<input, lastop, first>>

ObjectResume ==
  /\ Running("parse_object", "wait")
  /\ Stay([top EXCEPT !.pc = "run", !.items = Append(@, ret)])
  /\ UNCHANGED <<input, text, lastop, first>>

ObjectExit ==
  /\ Running("parse_object", "run")
  /\ is_empty(text)
  /\ Throw(top, object_exit_error(top.start_found))
  /\ UNCHANGED <<input, text, lastop, first>>

\* ------------------------------------------------------------------------
\* BONObject: lookup and removal by key, on the Object the parse returned
\* ------------------------------------------------------------------------
Matches(nodes, item) == {i \in 1..Len(nodes) : nodes[i].key = item}

Min(S) == CHOOSE i \in S : \A j \in S : i <= j

Max(S) == CHOOSE i \in S : \A j \in S : j <= i

\* __getitem__: the value of the first node with the key
getitem(nodes, item) ==
  IF Matches(nodes, item) = {} THEN Raise("KeyError")
  ELSE nodes[Min(Matches(nodes, item))].value

delitem_index_first(nodes, key) ==
  IF Matches(nodes, key) = {} THEN 0 - 1 ELSE Min(Matches(nodes, key)) - 1

\* the loop of __delitem__ runs to the end: index is the 0-based position of
\* the last node with the key, -1 standing for None
delitem_index(nodes, key) ==
  IF Matches(nodes, key) = {} THEN 0 - 1 ELSE Max(Matches(nodes, key)) - 1

\* __delitem__: "not index" holds of None and of 0
delitem(nodes, key) ==
  LET index == delitem_index(nodes, key)
  IN IF index = 0 - 1 \/ index = 0 THEN Raise("KeyError")
     ELSE [t |-> "nodes",
           nodes |-> SubSeq(nodes, 1, index) \o
                     SubSeq(nodes, index + 2, Len(nodes))]

\* ------------------------------------------------------------------------
\* Source texts
\* ------------------------------------------------------------------------
MaxLen == 3
MaxNumLen == 4
MaxStrLen == 4
MaxClauses == 3
MaxItems == 2

RECURSIVE Cat(_)
Cat(ss) == IF ss = <<>> THEN <<>> ELSE Head(ss) \o Cat(Tail(ss))

SeqsUpTo(S, n) == UNION {[1..k -> S] : k \in 0..n}

SmallAlphabet ==
  {"{", "}", "[", "]", ":", ";", ",", SP, DQ, BS, "a", "1", "f"}

SmallStrings == SeqsUpTo(SmallAlphabet, MaxLen)

NumAlphabet == {"1", "2", ".", "f", "e", "-", SP}

NumStrings == SeqsUpTo(NumAlphabet, MaxNumLen)

StrAlphabet == {DQ, SQ, BS, "a", TAB}

StrStrings == SeqsUpTo(StrAlphabet, MaxStrLen)

Keys == {<<"a">>, <<"b">>}

ScalarTexts ==
  {<<"1">>,
   <<"1", "2">>,
   <<"4", "f">>,
   <<"4", ".", "5">>,
   <<"2", "e", "-", "5">>,
   <<DQ, "x", DQ>>,
   <<SQ, "x", SQ>>,
   <<DQ, "a", BS, DQ, "b", DQ>>}

ItemTexts ==
  {<<"1">>,
   <<DQ, "x", DQ>>,
   <<"{", "k", ":", DQ, "v", DQ, ";", "}">>}

ItemSeqs == SeqsUpTo(ItemTexts, MaxItems) \ {<<>>}

ListText(vs) ==
  <<"[">> \o Head(vs) \o Cat([i \in 1..(Len(vs) - 1) |->
                                 <<",">> \o vs[i + 1]]) \o <<"]">>

ListTexts == {ListText(vs) : vs \in ItemSeqs}

ObjTexts ==
  {<<"{", "}">>,
   <<"{", "b", ":", "1", ";", "}">>}

ValueTexts == ScalarTexts \cup ListTexts \cup ObjTexts

\* one "key: value;" clause
Clause(k, sp, v) == k \o <<":">> \o sp \o v \o <<";">>

RichClauses == {Clause(<<"a">>, sp, v) : sp \in {<<>>, <<SP>>}, v \in ValueTexts}

SimpleValues == {<<"1">>, <<DQ, "x", DQ>>}

\* a run of simple clauses, each given as <<key, value text>>
PartSeqs == SeqsUpTo(Keys \X SimpleValues, MaxClauses)

ClausesOf(ps) == Cat([i \in 1..Len(ps) |-> Clause(ps[i][1], <<>>, ps[i][2])])

Doc(body) == <<"{">> \o body \o <<"}">>

RichDocs == {Doc(c) : c \in RichClauses}

Docs == RichDocs \cup {Doc(ClausesOf(ps)) : ps \in PartSeqs}

\* a run of simple clauses in braces, the last ";" left out
NoTerminator ==
  {Doc(SubSeq(ClausesOf(ps), 1, Len(ClausesOf(ps)) - 1)) :
     ps \in PartSeqs \ {<<>>}}

Examples ==
  {<<"{", "i", "t", "e", "m", "s", ":", SP, "[", "1", ",", SP, "2", ",", SP, "{", "k", ":", SP, DQ, "v", DQ, ";", "}", "]", ";", "}">>,
   <<"{", "v", "a", "l", "u", "e", ":", SP, DQ, "x", DQ, "}">>,
   <<"{", "v", "a", "l", "u", "e", ":", SP, DQ, "x", DQ, ";">>,
   <<"v", "a", "l", "u", "e", ":", SP, DQ, "a", BS, DQ, "b", DQ, ";">>,
   <<"{", "a", ":", SP, "4", "f", ";", "}">>,
   <<"[", "1", ",", SP, "2">>,
   <<"{", "v", "a", "l", "u", "e", "_", "1", ":", SP, DQ, "v", "a", "l", "u", "e", DQ, ";", "}">>,
   <<"[", "]">>,
   <<"4", "f", "f">>,
   <<"4", "f", "5">>,
   <<"[", "1", ",", "[", "2", ",", "1", "]", ",", "1", "]">>,
   <<"{", "a", ":", "{", "b", ":", "[", "1", "]", ";", "}", ";", "}">>}

Prefixes(S) == UNION {{SubSeq(s, 1, k) : k \in 0..Len(s)} : s \in S}

Deletions(S) ==
  UNION {{SubSeq(s, 1, k - 1) \o SubSeq(s, k + 1, Len(s)) : k \in 1..Len(s)} :
           s \in S}

Inputs ==
  SmallStrings \cup NumStrings \cup StrStrings
    \cup Prefixes(Docs \cup Examples \cup ValueTexts)
    \cup Deletions(RichDocs \cup Examples) \cup NoTerminator

\* ------------------------------------------------------------------------
\* The program: BONParser(input).parse_value(), then operations on the result
\* ------------------------------------------------------------------------
LookupKeys == {<<"a">>, <<"b">>, <<"c">>}

Init ==
  /\ input \in Inputs
  /\ text = TextQueue(sanitize(input))
  /\ stack = <<Frame("parse_value", Len(TextQueue(sanitize(input))))>>
  /\ ret = None
  /\ status = "running"
  /\ err = "none"
  /\ last = NoFrame
  /\ lastop = NoOp
  /\ first = None

\* The positions between two adjacent tokens of a source text: k is one when
\* s[k] or s[k+1] is a structural character, neither is a backslash, and
\* the place is outside every string literal.
Punct == {"{", "}", "[", "]", ":", ";", ","}

RECURSIVE InString(_, _)
InString(s, k) ==
  IF k = 0 THEN [in |-> FALSE, esc |-> FALSE]
  ELSE LET p == InString(s, k - 1)
       IN [in |-> IF ~p.esc /\ s[k] \in {DQ, SQ} THEN ~p.in ELSE p.in,
           esc |-> (s[k] = BS /\ ~p.esc)]

Boundaries(s) ==
  {k \in 1..(Len(s) - 1) :
     /\ s[k] \in Punct \/ s[k + 1] \in Punct
     /\ s[k] # BS /\ s[k + 1] # BS
     /\ ~InString(s, k).in}

\* a second run of the program, on a document with a space put between two
\* adjacent tokens; the first run's result is kept for comparison
Respace ==
  /\ status = "done"
  /\ input \in RichDocs \cup Examples \cup ValueTexts
  /\ first.t = "none"
  /\ lastop.op = "none"
  /\ \E k \in Boundaries(input) :
       LET spaced == SubSeq(input, 1, k) \o <<SP>>
                       \o SubSeq(input, k + 1, Len(input))
       IN /\ input' = spaced
          /\ text' = TextQueue(sanitize(spaced))
          /\ stack' = <<Frame("parse_value",
                              Len(TextQueue(sanitize(spaced))))>>
  /\ first' = [t |-> "result", input |-> input, ret |-> ret]
  /\ ret' = None
  /\ status' = "running"
  /\ last' = NoFrame
  /\ UNCHANGED <<err, lastop>>

GetItem ==
  /\ status = "done"
  /\ first.t = "none"
  /\ ret.t = "object"
  /\ \E k \in LookupKeys :
       lastop' = [op |-> "get", key |-> k, before |-> ret.nodes,
                  result |-> getitem(ret.nodes, StrVal(k))]
  /\ UNCHANGED <<input, text, stack, ret, status, err, last, first>>

DelItem ==
  /\ status = "done"
  /\ first.t = "none"
  /\ ret.t = "object"
  /\ \E k \in LookupKeys :
       LET r == delitem(ret.nodes, StrVal(k))
       IN /\ lastop' = [op |-> "del", key |-> k, before |-> ret.nodes,
                        raised |-> r.t = "raise"]
          /\ ret' = IF r.t = "raise" THEN ret ELSE BONObject(r.nodes)
  /\ UNCHANGED <<input, text, stack, status, err, last, first>>

ParseStep ==
  \/ Call
  \/ ValueReturn
  \/ NumberLoop
  \/ NumberExit
  \/ StringLoop
  \/ StringExit
  \/ ListLoop
  \/ ListResume
  \/ ListExit
  \/ NodeLoop
  \/ NodeResume
  \/ NodeExit
  \/ ObjectLoop
  \/ ObjectResume
  \/ ObjectExit

Next ==
  \/ ParseStep
  \/ GetItem
  \/ DelItem
  \/ Respace

Spec == Init /\ [][Next]_vars

FairSpec == Spec /\ WF_vars(ParseStep)

\* ------------------------------------------------------------------------
\* Properties
\* ------------------------------------------------------------------------
\* the first run has ended and nothing has been done to its result
Ended == status # "running" /\ lastop.op = "none" /\ first.t = "none"

\* the value a simple value text denotes
SimpleValueOf(v) == IF v = <<"1">> THEN IntVal(1) ELSE StrVal(<<"x">>)

NodesOf(ps) ==
  [i \in 1..Len(ps) |-> BONNode(StrVal(ps[i][1]), SimpleValueOf(ps[i][2]))]

FirstWith(ps, k) == Min({i \in 1..Len(ps) : ps[i][1] = k})

\* C1: for every n >= 0, the text "{", n well-formed "key: value;" clauses,
\* "}" parses to an Object holding exactly those n nodes in source order,
\* and the lookup of a key gives the value of the first clause with that
\* key; "{}" gives an Object with no nodes.
C1Claim ==
  Ended =>
    \A ps \in PartSeqs :
      input = Doc(ClausesOf(ps)) =>
        /\ status = "done"
        /\ ret = BONObject(NodesOf(ps))
        /\ \A k \in Keys :
             (\E i \in 1..Len(ps) : ps[i][1] = k) =>
               getitem(ret.nodes, StrVal(k))
                 = SimpleValueOf(ps[FirstWith(ps, k)][2])

\* the routine's own "[" and "," characters, from the first "[" on
RECURSIVE Triggers(_, _)
Triggers(cs, started) ==
  IF cs = <<>> THEN 0
  ELSE LET st == started \/ Head(cs) = "["
       IN (IF st /\ Head(cs) \in {"[", ","} THEN 1 ELSE 0)
            + Triggers(Tail(cs), st)

ItemValueOf(v) ==
  IF v = <<"1">> THEN IntVal(1)
  ELSE IF v = <<DQ, "x", DQ>> THEN StrVal(<<"x">>)
  ELSE BONObject(<<BONNode(StrVal(<<"k">>), StrVal(<<"v">>))>>)

\* C2: a list returned by parse_list holds one element for each "[" or ","
\* the routine itself consumed from the start on, in the order consumed, so
\* it is never empty; a list text of items parses to those items in order.
C2Thm ==
  /\ (last.fn = "parse_list" /\ last.result.t = "list") =>
       /\ Len(last.result.items) = Triggers(last.consumed, FALSE)
       /\ Len(last.result.items) >= 1
  /\ (Ended /\ status = "done") =>
       \A vs \in ItemSeqs :
         input = ListText(vs) =>
           ret = ListVal([i \in 1..Len(vs) |-> ItemValueOf(vs[i])])

C2Wit ==
  /\ last.fn = "parse_list"
  /\ last.result.t = "list"
  /\ Len(last.result.items) = 3
  /\ last.result.items[3].t = "object"
  /\ Triggers(last.consumed, FALSE) = 3

\* C3: an object text whose last clause has a parsed value and no ";" before
\* the input ends fails with the missing-";" error; an object text that
\* ends after "{" and complete clauses without "}" fails with the
\* missing-"}" error, not the missing-"{" one; no Object is returned.
C3Thm ==
  status = "error" =>
    /\ ret = None
    /\ (last.fn = "parse_node" /\ last.key.t # "none") =>
         err = "MissingNodeTerminator" /\ is_empty(text)
    /\ (/\ last.fn = "parse_object"
        /\ Count(last.consumed, "{") = 1
        /\ Len(last.items) >= 1
        /\ is_empty(text)) =>
         err = "MissingClosingBrace"
    /\ \A ps \in PartSeqs \ {<<>>} :
         LET body == ClausesOf(ps)
             open == SubSeq(body, 1, Len(body) - 1)
         IN /\ input \in {<<"{">> \o open, <<"{">> \o open \o <<"}">>} =>
                 err = "MissingNodeTerminator"
            /\ input = <<"{">> \o body => err = "MissingClosingBrace"

C3Wit ==
  /\ status = "error"
  /\ err = "MissingClosingBrace"
  /\ last.fn = "parse_object"
  /\ Len(last.items) = 2
  /\ input = <<"{">> \o ClausesOf(<<<<<<"a">>, <<"1">>>>, <<<<"b">>, <<DQ, "x", DQ>>>>>>)

\* the consumed characters after the opening quote (the first quote)
RECURSIVE AfterOpen(_)
AfterOpen(cs) ==
  IF cs = <<>> THEN <<>>
  ELSE IF Head(cs) \in {DQ, SQ} THEN Tail(cs)
  ELSE AfterOpen(Tail(cs))

HasOpen(cs) == \E i \in 1..Len(cs) : cs[i] \in {DQ, SQ}

\* the number of backslashes in a row right before position i
RECURSIVE BackslashRun(_, _)
BackslashRun(b, i) ==
  IF i > 1 /\ b[i - 1] = BS THEN 1 + BackslashRun(b, i - 1) ELSE 0

\* position i is not preceded by an unescaped backslash
Unescaped(b, i) == BackslashRun(b, i) % 2 = 0

ClosingAt(b, i) == b[i] \in {DQ, SQ} /\ Unescaped(b, i)

\* b without its unescaped backslashes
RECURSIVE Kept(_, _)
Kept(b, i) ==
  IF i > Len(b) THEN <<>>
  ELSE (IF b[i] = BS /\ Unescaped(b, i) THEN <<>> ELSE <<b[i]>>)
         \o Kept(b, i + 1)

\* C4: after its opening quote parse_string returns at the first quote
\* character (either one) not preceded by an unescaped backslash; the result
\* is the characters in between with each unescaped backslash dropped and
\* the character after it kept; with no such quote before the input ends it
\* fails with the unterminated-string error.
C4Thm ==
  last.fn = "parse_string" =>
    LET b == AfterOpen(last.consumed)
        n == Len(b)
    IN IF last.result.t = "str"
         THEN /\ HasOpen(last.consumed)
              /\ n >= 1
              /\ ClosingAt(b, n)
              /\ \A i \in 1..(n - 1) : ~ClosingAt(b, i)
              /\ last.result.s = Kept(SubSeq(b, 1, n - 1), 1)
         ELSE /\ status = "error"
              /\ err = "UnterminatedString"
              /\ is_empty(text)
              /\ \A i \in 1..n : ~ClosingAt(b, i)

C4Wit ==
  /\ last.fn = "parse_string"
  /\ last.result.t = "str"
  /\ last.result.s = <<"a", DQ, "b">>
  /\ AfterOpen(last.consumed) = <<"a", BS, DQ, "b", DQ>>

\* the digits of cs, the other characters left out
RECURSIVE DigitsOf(_)
DigitsOf(cs) ==
  IF cs = <<>> THEN <<>>
  ELSE (IF isdigit(Head(cs)) THEN <<Head(cs)>> ELSE <<>>)
         \o DigitsOf(Tail(cs))

FMisused(cs) ==
  \/ Count(cs, "f") > 1
  \/ \E i \in 1..(Len(cs) - 1) : cs[i] = "f"

\* C5: the characters parse_number consumes decide its result: all digits or
\* spaces, the base-10 integer of the digits with the spaces ignored;
\* otherwise a float, with the float-token error exactly when "f" occurs
\* more than once or anywhere but last.
C5Claim ==
  last.fn = "parse_number" =>
    LET cs == last.consumed
    IN IF \A i \in 1..Len(cs) : isdigit(cs[i]) \/ cs[i] = SP
         THEN DigitsOf(cs) # <<>> =>
                last.result = IntVal(DigitsVal(DigitsOf(cs), 0))
         ELSE /\ (status = "error"
                    /\ err \in {"FloatTokenTooMany", "FloatTokenMisplaced"})
                   <=> FMisused(cs)
              /\ status # "error" => last.result.t = "float"

\* C6: a space put between two adjacent tokens of a text that parses leaves
\* the parse successful and the document equal.
C6Claim ==
  (first.t = "result" /\ status # "running") =>
    status = "done" /\ ret = first.ret

\* C7: determine_type consumes nothing: the queue is the same after a
\* classification as before it, and classifying what it left gives the
\* same kind again.
C7Thm ==
  [][/\ Running("parse_value", "run") =>
          /\ text' = text
          /\ status' = "running" =>
               determine_type(text').kind = stack'[Len(stack)].type
     /\ (Running("parse_object", "run") /\ ~is_empty(text)
            /\ peek(text, 0) = "{") =>
          text' = pop_rest(text)
     /\ (Running("parse_object", "run") /\ ~is_empty(text)
            /\ peek(text, 0) \notin {"{", "}", SP} /\ top.start_found) =>
          text' = text]_vars

C7Wit ==
  /\ status = "running"
  /\ Len(stack) = 4
  /\ stack[3].fn = "parse_value"
  /\ stack[3].pc = "wait"
  /\ stack[3].type = "number"
  /\ stack[4].consumed = <<>>
  /\ Len(text) = stack[3].entry
  /\ Len(text) >= 3

RemoveAt(nodes, i) == SubSeq(nodes, 1, i - 1) \o SubSeq(nodes, i + 1, Len(nodes))

\* C8 as stated: del obj[k] is rejected, the nodes unchanged, when no node
\* has key k and whenever the first node with key k is at position 0;
\* otherwise it removes exactly one node with key k, the rest in order.
C8Claim ==
  lastop.op = "del" =>
    LET ms == Matches(lastop.before, StrVal(lastop.key))
    IN IF ms = {} \/ Min(ms) = 1
         THEN lastop.raised /\ ret.nodes = lastop.before
         ELSE /\ ~lastop.raised
              /\ \E i \in ms : ret.nodes = RemoveAt(lastop.before, i)

\* C8 amended: del obj[k] is rejected, the nodes unchanged, when no node has
\* key k and whenever the last node with key k is at position 0; otherwise
\* it removes the last node with key k, the rest in order.
C8Thm ==
  lastop.op = "del" =>
    LET ms == Matches(lastop.before, StrVal(lastop.key))
    IN IF ms = {} \/ Max(ms) = 1
         THEN lastop.raised /\ ret.nodes = lastop.before
         ELSE /\ ~lastop.raised
              /\ ret.nodes = RemoveAt(lastop.before, Max(ms))

C8Wit ==
  /\ lastop.op = "del"
  /\ ~lastop.raised
  /\ Len(lastop.before) = 3
  /\ Matches(lastop.before, StrVal(lastop.key)) = {1, 3}
  /\ Len(ret.nodes) = 2

\* the parse_value frames of the stack, outermost first
ValueFrames == {i \in 1..Len(stack) : stack[i].fn = "parse_value"}

\* every iteration of the running routine starts on a shorter queue than
\* its previous one, and every nested parse_value call on a shorter queue
\* than the call around it
Shrinks ==
  status = "running" =>
    /\ top.pc = "run" => Len(text) < top.lastLen
    /\ \A i \in ValueFrames : \A j \in ValueFrames :
         i < j => stack[j].entry < stack[i].entry

\* C9: every parse_value call on a finite queue ends, by returning or by
\* raising, because the queue gets strictly shorter from one loop iteration
\* to the next and from one nested call to the next.
C9Thm == []Shrinks /\ <>(status # "running")

C9Wit ==
  /\ status = "done"
  /\ first.t = "none"
  /\ ret.t = "object"
  /\ Len(ret.nodes) = 1
  /\ ret.nodes[1].value.t = "list"
  /\ Len(ret.nodes[1].value.items) = 3
  /\ ret.nodes[1].value.items[3].t = "object"

KindHolds(kind, v) ==
  CASE kind = "number" -> v.t \in {"int", "float"}
    [] kind = "string" -> v.t = "str"
    [] kind = "bon_list" -> v.t = "list"
    [] kind = "bon_node" -> v.t = "node" /\ v.key.t = "str"
                              /\ v.value.t # "none"
    [] kind = "bon_object" -> v.t = "object"
    [] OTHER -> FALSE

\* C10: whenever parse_value returns normally the value is of the kind the
\* classifier announced; a list cut off before "]" ends in an error.
C10Claim ==
  (last.fn = "parse_value" /\ status # "error") =>
    KindHolds(last.type, last.result)

====
